---------------------------- MODULE Spec2Model ----------------------------
(***************************************************************************)
(* A model of the observability-gateway environment of policy-rl-agent:   *)
(* the label parser and the observation transformer of                    *)
(* observability_handlers.py, and the environment object of               *)
(* observability_gateway_environment.py (get_observations,                *)
(* fetch_class_info, compute_source_weights_per_class,                    *)
(* apply_rate_limits).                                                    *)
(*                                                                         *)
(* Numbers are exact rationals [n, d] in lowest terms with d > 0, and the  *)
(* float NaN, which no comparison holds of and every operation hands on.   *)
(* Strings are sequences of symbols; a symbol is one of the separators    *)
(* ",", "=", " " or a word (a run of characters holding no separator).    *)
(***************************************************************************)
EXTENDS Integers, Sequences, FiniteSets, TLC

VARIABLES
    segs,                     \* the segments the label under parse was joined from
    parsed,                   \* parse_key's last result (NotParsed before a call)
    raw,                      \* the last response of fetch_observations
    source_count_per_class,   \* self.source_count_per_class, a defaultdict(dict)
    metrics,                  \* self.metrics: the stored tree (NoTree is None)
    importance_parameters,    \* self.importance_parameters
    current_class_weights,    \* self.current_class_weights
    call                      \* the last environment call: its arguments and outcome

vars == <<segs, parsed, raw, source_count_per_class, metrics,
          importance_parameters, current_class_weights, call>>

-----------------------------------------------------------------------------
(* Bounds of the model.                                                    *)

MaxSegs == 3
MaxSamples == 2

-----------------------------------------------------------------------------
(* Exact rational arithmetic.                                              *)

Abs(x) == IF x < 0 THEN -x ELSE x

RECURSIVE GCD(_, _)
GCD(a, b) == IF b = 0 THEN a ELSE GCD(b, a % b)

Rat(n, d) ==
    LET g == GCD(Abs(n), Abs(d))
        s == IF d < 0 THEN -1 ELSE 1
    IN  [n |-> (s * n) \div g, d |-> (s * d) \div g]

Num(k) == [n |-> k, d |-> 1]
Zero == Num(0)
One == Num(1)

\* float("nan")
NaN == [n |-> 1, d |-> 0]
IsNaN(x) == x.d = 0

LCM(a, b) == (a \div GCD(a, b)) * b

RatAdd(x, y) ==
    IF IsNaN(x) \/ IsNaN(y) THEN NaN
    ELSE LET l == LCM(x.d, y.d)
         IN  Rat(x.n * (l \div x.d) + y.n * (l \div y.d), l)

RatNeg(x) == IF IsNaN(x) THEN NaN ELSE [n |-> -x.n, d |-> x.d]
RatSub(x, y) == RatAdd(x, RatNeg(y))

RatMul(x, y) ==
    IF IsNaN(x) \/ IsNaN(y) THEN NaN
    ELSE LET a == Rat(x.n, y.d)
             b == Rat(y.n, x.d)
         IN  [n |-> a.n * b.n, d |-> a.d * b.d]

\* x / y for y # 0
RatDiv(x, y) == IF IsNaN(x) \/ IsNaN(y) THEN NaN ELSE RatMul(x, Rat(y.d, y.n))

\* comparisons over the common denominator; a comparison with NaN is false
RatLt(x, y) ==
    /\ ~IsNaN(x)
    /\ ~IsNaN(y)
    /\ LET l == LCM(x.d, y.d)
       IN  x.n * (l \div x.d) < y.n * (l \div y.d)
RatLe(x, y) == ~IsNaN(x) /\ ~IsNaN(y) /\ (x = y \/ RatLt(x, y))
RatAbs(x) == [n |-> Abs(x.n), d |-> x.d]
\* x == 0
IsZero(x) == ~IsNaN(x) /\ x.n = 0

\* floor of a rational
Floor(x) == x.n \div x.d

-----------------------------------------------------------------------------
(* Strings.                                                                *)

Comma == ","
Equals == "="
Space == " "

Str(w) == <<w>>

RECURSIVE Join(_, _)
Join(parts, sep) ==
    IF Len(parts) = 0 THEN <<>>
    ELSE IF Len(parts) = 1 THEN parts[1]
    ELSE parts[1] \o <<sep>> \o Join(Tail(parts), sep)

\* str.split(sep): the pieces between the occurrences of sep ("" gives [""])
RECURSIVE Split(_, _)
Split(s, sep) ==
    IF \A i \in 1..Len(s) : s[i] # sep THEN <<s>>
    ELSE LET i == CHOOSE j \in 1..Len(s) :
                      s[j] = sep /\ \A k \in 1..(j - 1) : s[k] # sep
         IN  <<SubSeq(s, 1, i - 1)>> \o Split(SubSeq(s, i + 1, Len(s)), sep)

\* str.split(sep, 1) of a string holding sep: the text before and after the first sep
SplitFirst(s, sep) ==
    LET i == CHOOSE j \in 1..Len(s) :
                 s[j] = sep /\ \A k \in 1..(j - 1) : s[k] # sep
    IN  <<SubSeq(s, 1, i - 1), SubSeq(s, i + 1, Len(s))>>

\* str.strip(): leading and trailing whitespace removed
RECURSIVE Strip(_)
Strip(s) ==
    IF Len(s) = 0 THEN s
    ELSE IF s[1] = Space THEN Strip(Tail(s))
    ELSE IF s[Len(s)] = Space THEN Strip(SubSeq(s, 1, Len(s) - 1))
    ELSE s

Contains(s, c) == \E i \in 1..Len(s) : s[i] = c

-----------------------------------------------------------------------------
(* The label parser: transform_observations.parse_key.                     *)

None == [some |-> FALSE, val |-> <<>>]
Some(v) == [some |-> TRUE, val |-> v]

\* dict.get(key): None when the key is absent
DictGet(d, key) == IF key \in DOMAIN d THEN Some(d[key]) ELSE None

\* d[k] = v
DictPut(d, k, v) == [x \in DOMAIN d \cup {k} |-> IF x = k THEN v ELSE d[x]]

EmptyDict == [x \in {} |-> <<>>]

\* the mutant of ParsePart: an earlier segment keeps its key (first wins)
ParsePartFirstWins(d, part) ==
    IF Contains(part, Equals)
    THEN LET kv == SplitFirst(part, Equals)
             k == Strip(kv[1])
         IN  IF k \in DOMAIN d THEN d ELSE DictPut(d, k, Strip(kv[2]))
    ELSE d

\* the body of parse_key's loop: one segment filed into d
ParsePart(d, part) ==
    IF Contains(part, Equals)
    THEN LET kv == SplitFirst(part, Equals)
         IN  DictPut(d, Strip(kv[1]), Strip(kv[2]))
    ELSE d

RECURSIVE ParseParts(_, _)
ParseParts(d, parts) ==
    IF Len(parts) = 0 THEN d
    ELSE ParseParts(ParsePart(d, Head(parts)), Tail(parts))

parse_key(key) ==
    LET d == ParseParts(EmptyDict, Split(key, Comma))
    IN  <<DictGet(d, Str("class")), DictGet(d, Str("pod")), DictGet(d, Str("source"))>>

-----------------------------------------------------------------------------
(* The observation transformer: transform_observations.                    *)

\* a raw response is a sequence (the dict's insertion order) of metric entries;
\* an entry holds a labelled map (a sequence of <<label, number>>) or a scalar
DictEntry(m, its) == [metric |-> m, isdict |-> TRUE, items |-> its, scalar |-> <<>>]
ScalarEntry(m, v) == [metric |-> m, isdict |-> FALSE, items |-> <<>>, scalar |-> v]

GlobalKey == Str("global")

\* lines 176-179: the items of one labelled metric, filed under the parsed key
RECURSIVE FileItems(_, _)
FileItems(metric, items) ==
    IF Len(items) = 0 THEN <<>>
    ELSE LET k == parse_key(Head(items)[1])
             rest == FileItems(metric, Tail(items))
         IN  IF k[1].some /\ k[2].some /\ k[3].some
             THEN <<[cls |-> k[1].val, pod |-> k[2].val, src |-> k[3].val,
                     metric |-> metric, v |-> Head(items)[2]]>> \o rest
             ELSE rest

\* lines 174-181: every assignment output[cls][pod][src][metric] = v, in order
RECURSIVE Filed(_)
Filed(result) ==
    IF Len(result) = 0 THEN <<>>
    ELSE LET e == Head(result)
         IN  (IF e.isdict
              THEN FileItems(e.metric, e.items)
              ELSE <<[cls |-> GlobalKey, pod |-> GlobalKey, src |-> GlobalKey,
                      metric |-> e.metric, v |-> e.scalar]>>)
             \o Filed(Tail(result))

\* the nested dict the assignments build: a later assignment to a key wins
TreeOf(es) ==
    LET I == 1..Len(es)
        Last(S) == CHOOSE i \in S : \A j \in S : j <= i
    IN  [c \in {es[i].cls : i \in I} |->
          [p \in {es[i].pod : i \in {j \in I : es[j].cls = c}} |->
            [s \in {es[i].src : i \in {j \in I : es[j].cls = c /\ es[j].pod = p}} |->
              LET L == {j \in I : es[j].cls = c /\ es[j].pod = p /\ es[j].src = s}
              IN  [m \in {es[i].metric : i \in L} |->
                     es[Last({j \in L : es[j].metric = m})].v]]]]

\* the classes of the output in insertion order: the order of the loop of line 184
RECURSIVE ClassOrder(_, _)
ClassOrder(es, seen) ==
    IF Len(es) = 0 THEN <<>>
    ELSE IF Head(es).cls \in seen THEN ClassOrder(Tail(es), seen)
    ELSE <<Head(es).cls>> \o ClassOrder(Tail(es), seen \cup {Head(es).cls})

\* metrics.get(name, 0)
MetricGet(m, name) == IF name \in DOMAIN m THEN m[name] ELSE Zero

\* the mutant of StarvationFlag: a backlog alone raises the flag
StarvationFlagOnBacklog(queue_length, forwarded_batches) ==
    IF RatLt(Zero, queue_length) THEN One ELSE Zero

\* line 192
StarvationFlag(queue_length, forwarded_batches) ==
    IF RatLt(Zero, queue_length) /\ RatLt(forwarded_batches, One) THEN One ELSE Zero

\* the mutant of DropRatio: the drops over the forwarded batches alone
DropRatioOverForwarded(dropped_batches, forwarded_batches) ==
    IF IsZero(forwarded_batches) THEN Zero
    ELSE RatDiv(dropped_batches, forwarded_batches)

\* lines 196-197
DropRatio(dropped_batches, forwarded_batches) ==
    LET total_batches == RatAdd(forwarded_batches, dropped_batches)
    IN  IF IsZero(total_batches) THEN Zero ELSE RatDiv(dropped_batches, total_batches)

\* the mutant of StalenessRatio: nothing forwarded counts as fresh
StalenessRatioZeroGuard(fresh_good_batches, forwarded_batches) ==
    IF IsZero(forwarded_batches) THEN Zero
    ELSE RatSub(One, RatDiv(fresh_good_batches, forwarded_batches))

\* line 219
StalenessRatio(fresh_good_batches, forwarded_batches) ==
    IF IsZero(forwarded_batches) THEN One
    ELSE RatSub(One, RatDiv(fresh_good_batches, forwarded_batches))

\* a value of source_count_per_class: an int, None (a pod's JSON null) or {}
ScInt(k) == [t |-> "int", v |-> k]
ScNone == [t |-> "none", v |-> 0]
ScDict == [t |-> "dict", v |-> 0]

\* defaultdict(dict).__getitem__: a missing key reads as {} ...
ScLookup(sc, cls) == IF cls \in DOMAIN sc THEN sc[cls] ELSE ScDict
\* ... and is inserted
ScAfterLookup(sc, cls) == IF cls \in DOMAIN sc THEN sc ELSE DictPut(sc, cls, ScDict)

\* lines 224-225: what class_total_capacity / num_sources raises
DivFault(num_sources) ==
    IF num_sources.t = "int"
    THEN (IF num_sources.v = 0 THEN "ZeroDivisionError" ELSE "none")
    ELSE "TypeError"

\* lines 224-225, for a non-zero int num_sources
QueueRatio(queue_length, class_total_capacity, num_sources) ==
    LET per_source_capacity == RatDiv(Num(class_total_capacity), Num(num_sources))
    IN  RatDiv(queue_length, per_source_capacity)

Derived == {"starvation_flag", "drop_ratio", "drop_excess", "staleness_ratio", "queue_ratio"}

\* lines 187-226: one leaf with its derived metrics (drop_slo is never passed)
DeriveLeaf(m, class_total_capacity, num_sources) ==
    LET queue_length == MetricGet(m, "queue_length")
        forwarded_batches == MetricGet(m, "forwarded_batches")
        dropped_batches == MetricGet(m, "dropped_batches")
        fresh_good_batches == MetricGet(m, "fresh_good_batches")
        drop_ratio == DropRatio(dropped_batches, forwarded_batches)
    IN  [k \in DOMAIN m \cup Derived |->
            CASE k = "starvation_flag" -> StarvationFlag(queue_length, forwarded_batches)
              [] k = "drop_ratio" -> drop_ratio
              [] k = "drop_excess" -> drop_ratio
              [] k = "staleness_ratio" -> StalenessRatio(fresh_good_batches, forwarded_batches)
              [] k = "queue_ratio" -> QueueRatio(queue_length, class_total_capacity, num_sources.v)
              [] OTHER -> m[k]]

\* the first class, in loop order, whose source count faults the division
FirstFault(order, sc) ==
    LET bad == {i \in 1..Len(order) : DivFault(ScLookup(sc, order[i])) # "none"}
    IN  IF bad = {} THEN 0 ELSE CHOOSE i \in bad : \A j \in bad : i <= j

\* transform_observations(result, class_total_capacity, source_count_per_class):
\* the exception raised ("none": it returns), the tree returned, and the
\* source_count_per_class object after the call
transform_observations(result, class_total_capacity, sc) ==
    LET es == Filed(result)
        order == ClassOrder(es, {})
        f == FirstFault(order, sc)
        output == TreeOf(es)
    IN  IF f # 0
        THEN [exc |-> DivFault(ScLookup(sc, order[f])), tree |-> <<>>,
              sc |-> ScAfterLookup(sc, order[f])]
        ELSE [exc |-> "none",
              tree |-> [c \in DOMAIN output |-> [p \in DOMAIN output[c] |->
                          [s \in DOMAIN output[c][p] |->
                              DeriveLeaf(output[c][p][s], class_total_capacity, sc[c])]]],
              sc |-> sc]

-----------------------------------------------------------------------------
(* The responses the metrics endpoint is drawn from.                       *)

Seg(k, v) == <<k, Equals, v>>

\* "class=gold,pod=p1,source=s1" and the like; the last one names no pod
LabelPool ==
    << Join(<<Seg("class", "gold"), Seg("pod", "p1"), Seg("source", "s1")>>, Comma),
       Join(<<Seg("class", "gold"), Seg("pod", "p1"), Seg("source", "s2")>>, Comma),
       Join(<<Seg("class", "silver"), Seg("pod", "p2"), Seg("source", "s1")>>, Comma),
       Join(<<Seg("class", "gold"), Seg("source", "s1")>>, Comma) >>

\* line 138: the default queries, in request order
QueryOrder == <<"forwarded_batches", "dropped_batches", "fresh_good_batches", "queue_length">>

\* the raw counts reported for one label; Absent: the metric holds no value for it
Absent == -1
Sample(f, d, g, q) ==
    [forwarded_batches |-> f, dropped_batches |-> d, fresh_good_batches |-> g,
     queue_length |-> q]
NoSample == Sample(Absent, Absent, Absent, Absent)

ObsSamples ==
    { Sample(10, 5, 2, 3),            \* the end-to-end scenario
      Sample(Absent, Absent, Absent, 3),
      Sample(2, 0, 0, 0),
      Sample(0, 4, 0, 7),
      Sample(2, 2, 1, 50),
      Sample(2, 1, Absent, Absent) }

ScoreSamples ==
    { Sample(Absent, Absent, Absent, 3),
      Sample(2, 0, 0, 0),
      Sample(2, 2, 1, 50),
      Sample(2, 2, 2, 190000) }

Assignments(pool) ==
    {a \in [1..Len(LabelPool) -> pool \cup {NoSample}] :
        Cardinality({i \in 1..Len(LabelPool) : a[i] # NoSample}) <= MaxSamples}

RECURSIVE ItemsOf(_, _, _)
ItemsOf(a, m, i) ==
    IF i > Len(LabelPool) THEN <<>>
    ELSE (IF a[i][m] = Absent THEN <<>> ELSE <<(<<LabelPool[i], Num(a[i][m])>>)>>)
         \o ItemsOf(a, m, i + 1)

\* the JSON body: one labelled map per queried metric that holds a value
RawOf(a) ==
    LET all == [i \in 1..Len(QueryOrder) |->
                   DictEntry(QueryOrder[i], ItemsOf(a, QueryOrder[i], 1))]
        NonEmpty(e) == Len(e.items) > 0
    IN  SelectSeq(all, NonEmpty)

StrVal(s) == [str |-> s]

\* line 149: the error result of a failed POST
ErrorResult == <<ScalarEntry("error", StrVal("POST failed"))>>
\* line 146: the result of a reply with no content
NoContentResult == <<ScalarEntry("status", StrVal("success")), ScalarEntry("code", Num(200))>>

\* fetch_observations: what a call may return
ObsFetchPool == {ErrorResult, NoContentResult} \cup {RawOf(a) : a \in Assignments(ObsSamples)}
ScoreFetchPool == {RawOf(a) : a \in Assignments(ScoreSamples)}

-----------------------------------------------------------------------------
(* The environment: ObservabilityGatewayEnvironment.                       *)

class_queue_capacity == 100
total_ingestion_rate == 1000

Cls(w) == Str(w)

\* self.pod_map as discovery returned it, class -> pod -> whether the pod has an IP
\* (p.status.pod_ip is None for a pod that has none yet)
class_pods ==
    [c \in {Cls("gold"), Cls("silver"), Cls("bronze")} |->
        IF c = Cls("gold") THEN [p \in {Str("p1"), Str("p3")} |-> p = Str("p1")]
        ELSE IF c = Cls("silver") THEN [p \in {Str("p2")} |-> TRUE]
        ELSE [p \in {Str("p4")} |-> FALSE]]

\* whether the class has a pod with an IP
pod_map == [c \in DOMAIN class_pods |-> \E p \in DOMAIN class_pods[c] : class_pods[c][p]]

NoCall ==
    [op |-> "none", exc |-> "none", sc_in |-> EmptyDict, sc_out |-> EmptyDict,
     params |-> EmptyDict, scored |-> 0, ret |-> <<>>,
     request |-> [isdict |-> FALSE, items |-> <<>>], ccw_in |-> EmptyDict,
     patches |-> <<>>, pushed |-> <<>>, posts |-> <<>>, observations |-> <<>>,
     metrics_in |-> None]

\* what a pod's GET /weights gives: a failure, or a body whose num_sources
\* is a number or is missing (None)
PodReplies ==
    {[ok |-> FALSE, num_sources |-> ScNone]}
    \cup {[ok |-> TRUE, num_sources |-> v] : v \in {ScNone, ScInt(0), ScInt(1), ScInt(2)}}

\* the pods asked: one per class that has a pod with an IP (line 182)
Asked == {c \in DOMAIN pod_map : pod_map[c]}

\* lines 181-201: source_count_per_class after the loop over the classes
FetchResult(sc, reply) ==
    LET stored == {c \in Asked : reply[c].ok}
    IN  [c \in DOMAIN sc \cup stored |->
            IF c \in stored THEN reply[c].num_sources ELSE sc[c]]

InitEnv ==
    /\ metrics = None
    /\ importance_parameters =
           [staleness |-> Rat(5, 10), batch_loss |-> Rat(3, 10), backlog |-> Rat(2, 10)]
    /\ current_class_weights =
           [c \in {Cls("gold"), Cls("silver"), Cls("bronze")} |->
               IF c = Cls("gold") THEN Rat(5, 10)
               ELSE IF c = Cls("silver") THEN Rat(3, 10) ELSE Rat(2, 10)]
    /\ call = NoCall

NotParsed == [done |-> FALSE, triple |-> <<None, None, None>>]

InitIdleParser ==
    /\ segs = <<>>
    /\ parsed = NotParsed

fetch_class_info(reply) ==
    /\ source_count_per_class' = FetchResult(source_count_per_class, reply)
    /\ call' = [NoCall EXCEPT !.op = "fetch_class_info",
                              !.sc_in = source_count_per_class,
                              !.sc_out = source_count_per_class']
    /\ UNCHANGED <<segs, parsed, raw, metrics, importance_parameters,
                   current_class_weights>>

\* the mutant of Stored: the new tree laid over the one stored before
StoredOver(previous, tree) ==
    IF ~previous.some THEN Some(tree)
    ELSE LET old == previous.val
             Sub(f, S, k) == IF k \in S THEN f[k] ELSE EmptyDict
             Over(a, b) == [m \in DOMAIN a \cup DOMAIN b |-> IF m \in DOMAIN b THEN b[m] ELSE a[m]]
         IN  Some([c \in DOMAIN old \cup DOMAIN tree |->
                     LET oc == Sub(old, DOMAIN old, c)
                         tc == Sub(tree, DOMAIN tree, c)
                     IN  [q \in DOMAIN oc \cup DOMAIN tc |->
                             LET op == Sub(oc, DOMAIN oc, q)
                                 tp == Sub(tc, DOMAIN tc, q)
                             IN  [x \in DOMAIN op \cup DOMAIN tp |->
                                     Over(Sub(op, DOMAIN op, x), Sub(tp, DOMAIN tp, x))]]])

\* line 289: self.metrics = transformed_metrics
Stored(previous, tree) == Some(tree)

\* lines 286-293, with the response fetched. aggregate_class_metrics (line 291) reads
\* the tree and assigns no field of the environment.
get_observations(fetched) ==
    LET t == transform_observations(fetched, class_queue_capacity, source_count_per_class)
    IN  /\ raw' = fetched
        /\ source_count_per_class' = t.sc
        /\ metrics' = IF t.exc = "none" THEN Stored(metrics, t.tree) ELSE metrics
        /\ call' = [NoCall EXCEPT !.op = "get_observations", !.exc = t.exc,
                                  !.sc_in = source_count_per_class, !.sc_out = t.sc,
                                  !.metrics_in = metrics]
        /\ UNCHANGED <<segs, parsed, importance_parameters, current_class_weights>>

-----------------------------------------------------------------------------
(* The urgency scorer: compute_source_weights_per_class.                   *)

RECURSIVE SumOver(_, _)
\* sum(d.values()) over the keys in S
SumOver(d, S) ==
    IF S = {} THEN Zero
    ELSE LET k == CHOOSE x \in S : TRUE
         IN  RatAdd(d[k], SumOver(d, S \ {k}))

\* line 405: total = sum(float(v) for v in params.values())
ImportanceTotal(params) == SumOver(params, DOMAIN params)

\* lines 408, 81: abs(total - 1.0) > 1e-6
OffTolerance(total) == RatLt(Rat(1, 1000000), RatAbs(RatSub(total, One)))

\* lines 403-409: whether the validation raises
Rejected(params) == OffTolerance(ImportanceTotal(params))

\* params.get(name, 0.0)
ParamGet(params, name) == IF name \in DOMAIN params THEN params[name] ELSE Zero

\* lines 421-429
Score(m, params) ==
    RatAdd(RatAdd(RatMul(ParamGet(params, "staleness"), MetricGet(m, "staleness_ratio")),
                  RatMul(ParamGet(params, "batch_loss"), MetricGet(m, "drop_ratio"))),
           RatMul(ParamGet(params, "backlog"), MetricGet(m, "queue_ratio")))

\* math.exp on doubles raises OverflowError from about 709.78 up, and gives 0.0
\* (underflow) from about -745.13 down
ExpOverflow == 710
ExpUnderflow == 746

Ceil(x) == -((-x.n) \div x.d)

ExpOverflows(x) == ~IsNaN(x) /\ Floor(x) >= ExpOverflow

\* math.exp(x), kept to what the normalisation rests on: it is 1 at 0, above 1 for
\* x > 0, in (0, 1) for x < 0 down to the underflow, 0 below it, and never increases
\* as x decreases. The value between is a step function of x, not the exponential.
Exp(x) ==
    IF IsNaN(x) THEN NaN
    ELSE IF RatLe(Zero, x) THEN Num(1 + Ceil(x))
    ELSE IF Floor(RatNeg(x)) >= ExpUnderflow THEN Zero
    ELSE Rat(1, 1 + Ceil(RatNeg(x)))

\* max(values) of a non-empty map. A NaN importance weight makes every score of the
\* call NaN (NaN * x + y is NaN), so the values are all numbers or all NaN.
MaxOf(src_map) ==
    IF \E s \in DOMAIN src_map : IsNaN(src_map[s]) THEN NaN
    ELSE CHOOSE v \in {src_map[s] : s \in DOMAIN src_map} :
             \A s \in DOMAIN src_map : RatLe(src_map[s], v)

\* the mutant of Shift: the scores are exponentiated as they are
ShiftNone(src_map) == Zero

\* line 443: max_v
Shift(src_map) == MaxOf(src_map)

\* line 444
Exps(src_map) == [s \in DOMAIN src_map |-> Exp(RatSub(src_map[s], Shift(src_map)))]

\* lines 445-447: the weights of one non-empty pod
Softmax(src_map) ==
    LET exps == Exps(src_map)
        total == SumOver(exps, DOMAIN exps)
        s == IF ~IsZero(total) THEN total ELSE One
    IN  [src \in DOMAIN src_map |-> RatDiv(exps[src], s)]

\* lines 414-430
RawScores(observations, params) ==
    [c \in DOMAIN observations |-> [p \in DOMAIN observations[c] |->
        [s \in DOMAIN observations[c][p] |-> Score(observations[c][p][s], params)]]]

\* whether math.exp raises in some pod
SoftmaxOverflows(raw_scores) ==
    \E c \in DOMAIN raw_scores : \E p \in DOMAIN raw_scores[c] :
        \E s \in DOMAIN raw_scores[c][p] :
            ExpOverflows(RatSub(raw_scores[c][p][s], Shift(raw_scores[c][p])))

\* lines 435-449
Normalized(raw_scores) ==
    [c \in DOMAIN raw_scores |-> [p \in DOMAIN raw_scores[c] |->
        IF DOMAIN raw_scores[c][p] = {} THEN EmptyDict ELSE Softmax(raw_scores[c][p])]]

CountLeaves(tree) ==
    Cardinality(UNION {UNION {{<<c, p, s>> : s \in DOMAIN tree[c][p]}
                                 : p \in DOMAIN tree[c]} : c \in DOMAIN tree})

compute_source_weights_per_class ==
    LET params == importance_parameters
        observations == metrics.val        \* self.metrics or {}
        raw_scores == RawScores(observations, params)
    IN  /\ call' =
             IF Rejected(params)
             THEN [NoCall EXCEPT !.op = "compute_source_weights_per_class",
                                 !.exc = "ValueError", !.params = params]
             ELSE IF SoftmaxOverflows(raw_scores)
             THEN [NoCall EXCEPT !.op = "compute_source_weights_per_class",
                                 !.exc = "OverflowError", !.params = params,
                                 !.scored = CountLeaves(observations)]
             ELSE [NoCall EXCEPT !.op = "compute_source_weights_per_class",
                                 !.params = params,
                                 !.scored = CountLeaves(observations),
                                 !.ret = Normalized(raw_scores)]
        /\ UNCHANGED <<segs, parsed, raw, source_count_per_class, metrics,
                       importance_parameters, current_class_weights>>

\* the caller assigns self.importance_parameters between calls
set_importance_parameters(p) ==
    /\ importance_parameters' = p
    /\ UNCHANGED <<segs, parsed, raw, source_count_per_class, metrics,
                   current_class_weights, call>>

-----------------------------------------------------------------------------
(* The rate-limit actuator: apply_rate_limits.                             *)

\* request_rates: a dict, as its items in insertion order, or something else
DictRequest(its) == [isdict |-> TRUE, items |-> its]
NotADict == [isdict |-> FALSE, items |-> <<>>]

RECURSIVE SumWeights(_)
\* line 80: sum(float(v) for v in request_rates.values())
SumWeights(items) ==
    IF Len(items) = 0 THEN Zero ELSE RatAdd(Head(items)[2], SumWeights(Tail(items)))

\* lines 77-82: whether the validation raises ValueError
RequestRejected(request) ==
    \/ ~request.isdict
    \/ Len(request.items) = 0
    \/ OffTolerance(SumWeights(request.items))

\* round(): to the nearest integer, a half to the even one
RoundHalfEven(x) ==
    LET f == Floor(x)
        twice == RatSub(RatAdd(x, x), Num(2 * f))    \* 2 * (x - f), in [0, 2)
    IN  IF RatLt(twice, One) THEN f
        ELSE IF RatLt(One, twice) THEN f + 1
        ELSE IF f % 2 = 0 THEN f ELSE f + 1

\* line 85
tokens_per_fill_total == IF total_ingestion_rate < 0 THEN 0 ELSE total_ingestion_rate

\* the mutant of Tokens: int() without round()
TokensTruncated(weight) == Floor(RatMul(Num(tokens_per_fill_total), weight))

\* line 117
Tokens(weight) == RoundHalfEven(RatMul(Num(tokens_per_fill_total), weight))

\* line 89: {str(k): float(v) for k, v in request_rates.items()}
WeightsOf(items) ==
    [c \in {items[i][1] : i \in 1..Len(items)} |->
        items[CHOOSE i \in 1..Len(items) : items[i][1] = c][2]]

\* line 117: int(round(nan)) raises ValueError; the index of the first class whose
\* weight is NaN, or 0
FirstNaN(items) ==
    IF \A i \in 1..Len(items) : ~IsNaN(items[i][2]) THEN 0
    ELSE CHOOSE i \in 1..Len(items) :
             IsNaN(items[i][2]) /\ \A j \in 1..(i - 1) : ~IsNaN(items[j][2])

\* lines 110-145: one patch attempt per class, in request order, up to the class whose
\* token count cannot be computed; ok[i] tells whether the i-th patch call returned or
\* raised
Patches(items, ok) ==
    LET last == IF FirstNaN(items) = 0 THEN Len(items) ELSE FirstNaN(items) - 1
    IN  [i \in 1..last |->
            [name |-> items[i][1], maxTokens |-> Tokens(items[i][2]),
             tokensPerFill |-> Tokens(items[i][2]), fillInterval |-> "1m", ok |-> ok[i]]]

\* kube_ok: whether config.load_kube_config() returns
apply_rate_limits(request, kube_ok, ok) ==
    LET rejected == RequestRejected(request)
        this == [NoCall EXCEPT !.op = "apply_rate_limits", !.request = request,
                               !.ccw_in = current_class_weights]
    IN  /\ current_class_weights' =
               IF rejected THEN current_class_weights ELSE WeightsOf(request.items)
        /\ call' = IF rejected THEN [this EXCEPT !.exc = "ValueError"]
                   ELSE IF ~kube_ok THEN [this EXCEPT !.exc = "RuntimeError"]
                   ELSE [this EXCEPT !.patches = Patches(request.items, ok),
                                     !.exc = IF FirstNaN(request.items) = 0 THEN "none"
                                             ELSE "ValueError"]
        /\ UNCHANGED <<segs, parsed, raw, source_count_per_class, metrics,
                       importance_parameters>>

-----------------------------------------------------------------------------
(* The pod actuators: push_slos_to_pods and push_weights_to_pods.          *)

\* a class -> pod -> body mapping in insertion order, as the sequence of its
\* (class, pod) entries
RECURSIVE Targets(_)
Targets(by_class) ==
    IF Len(by_class) = 0 THEN <<>>
    ELSE [i \in 1..Len(Head(by_class)[2]) |->
             [cls |-> Head(by_class)[1], pod |-> Head(by_class)[2][i][1],
              body |-> Head(by_class)[2][i][2]]]
         \o Targets(Tail(by_class))

\* lines 224-231, 262-269: pod_ip = self.pod_map.get(cls, {}).get(pod_name), truthy
HasIp(cls, pod) ==
    /\ cls \in DOMAIN class_pods
    /\ pod \in DOMAIN class_pods[cls]
    /\ class_pods[cls][pod]

\* the POSTs of a push, in order; ok[i] tells whether the i-th one succeeded
Posts(by_class, ok) ==
    LET Reached(t) == HasIp(t.cls, t.pod)
        reached == SelectSeq(Targets(by_class), Reached)
    IN  [i \in 1..Len(reached) |->
            [cls |-> reached[i].cls, pod |-> reached[i].pod, body |-> reached[i].body,
             ok |-> ok[i]]]

\* line 280: source_count_per_class[cls] = len(weights) after each POST that succeeded
RECURSIVE CountsAfter(_, _)
CountsAfter(sc, posts) ==
    IF Len(posts) = 0 THEN sc
    ELSE CountsAfter(IF Head(posts).ok
                     THEN DictPut(sc, Head(posts).cls,
                                  ScInt(Cardinality(DOMAIN Head(posts).body)))
                     ELSE sc,
                     Tail(posts))

\* lines 206-242
push_slos_to_pods(slo_updates, ok) ==
    /\ call' = [NoCall EXCEPT !.op = "push_slos_to_pods", !.pushed = slo_updates,
                              !.sc_in = source_count_per_class,
                              !.sc_out = source_count_per_class,
                              !.posts = Posts(slo_updates, ok)]
    /\ UNCHANGED <<segs, parsed, raw, source_count_per_class, metrics,
                   importance_parameters, current_class_weights>>

\* lines 245-283
push_weights_to_pods(weights_by_class, ok) ==
    LET posts == Posts(weights_by_class, ok)
    IN  /\ source_count_per_class' = CountsAfter(source_count_per_class, posts)
        /\ call' = [NoCall EXCEPT !.op = "push_weights_to_pods",
                                  !.pushed = weights_by_class,
                                  !.sc_in = source_count_per_class,
                                  !.sc_out = source_count_per_class',
                                  !.posts = posts]
        /\ UNCHANGED <<segs, parsed, raw, metrics, importance_parameters,
                       current_class_weights>>

-----------------------------------------------------------------------------
(* SpecObs: an environment as the constructor leaves it (pod discovery,    *)
(* then fetch_class_info), the response of the metrics endpoint in flight, *)
(* and get_observations called on it, once or again.                       *)

InitObs ==
    /\ InitIdleParser
    /\ InitEnv
    /\ raw \in ObsFetchPool
    /\ \E reply \in [Asked -> PodReplies] :
           source_count_per_class = FetchResult(EmptyDict, reply)

Observe == get_observations(raw)

NextObs == Observe

SpecObs == InitObs /\ [][NextObs]_vars

-----------------------------------------------------------------------------
(* SpecScore: an environment whose pods reported two gold sources and one  *)
(* silver source, a response in flight, the caller assigning importance    *)
(* weights, and the scorer called at any time.                             *)

ImportancePool ==
    { [staleness |-> Rat(5, 10), batch_loss |-> Rat(3, 10), backlog |-> Rat(2, 10)],
      [staleness |-> Rat(5, 10), batch_loss |-> Rat(3, 10), backlog |-> Rat(3, 10)],
      \* 0.5000008: within the tolerance
      [staleness |-> Rat(625001, 1250000), batch_loss |-> Rat(3, 10), backlog |-> Rat(2, 10)],
      \* 0.500002: outside it
      [staleness |-> Rat(250001, 500000), batch_loss |-> Rat(3, 10), backlog |-> Rat(2, 10)],
      [staleness |-> Zero, batch_loss |-> Zero, backlog |-> One],
      [staleness |-> Zero, batch_loss |-> Zero, backlog |-> Zero],
      [staleness |-> NaN, batch_loss |-> Rat(3, 10), backlog |-> Rat(2, 10)] }

InitScore ==
    /\ InitIdleParser
    /\ InitEnv
    /\ raw \in ScoreFetchPool
    /\ source_count_per_class =
           FetchResult(EmptyDict,
                       [c \in Asked |-> [ok |-> TRUE,
                                         num_sources |-> IF c = Cls("gold") THEN ScInt(2)
                                                         ELSE ScInt(1)]])

SetImportance == \E p \in ImportancePool : set_importance_parameters(p)

ComputeSourceWeights == compute_source_weights_per_class

NextScore ==
    \/ Observe
    \/ SetImportance
    \/ ComputeSourceWeights

SpecScore == InitScore /\ [][NextScore]_vars

-----------------------------------------------------------------------------
(* SpecRate: an environment whose pods have reported no source count yet,  *)
(* and the actuators called with any request of their pools, the cluster   *)
(* configuration loading or not and each patch or POST succeeding or       *)
(* failing.                                                                *)

MaxClasses == 3

AllRequests ==
    { NotADict,
      DictRequest(<<>>),
      DictRequest(<< <<Cls("gold"), Rat(5, 10)>>, <<Cls("silver"), Rat(3, 10)>>,
                     <<Cls("bronze"), Rat(2, 10)>> >>),
      DictRequest(<< <<Cls("gold"), Rat(5, 10)>>, <<Cls("silver"), Rat(3, 10)>>,
                     <<Cls("bronze"), Rat(3, 10)>> >>),
      DictRequest(<< <<Cls("silver"), Rat(4, 10)>>, <<Cls("gold"), Rat(6, 10)>> >>),
      \* 0.5000008 + 0.3 + 0.2: within the tolerance
      DictRequest(<< <<Cls("gold"), Rat(625001, 1250000)>>, <<Cls("silver"), Rat(3, 10)>>,
                     <<Cls("bronze"), Rat(2, 10)>> >>),
      \* 0.500002 + 0.3 + 0.2: outside it
      DictRequest(<< <<Cls("gold"), Rat(250001, 500000)>>, <<Cls("silver"), Rat(3, 10)>>,
                     <<Cls("bronze"), Rat(2, 10)>> >>),
      DictRequest(<< <<Cls("gold"), One>> >>),
      \* 0.3336, 0.3334, 0.333: products that are no integers
      DictRequest(<< <<Cls("gold"), Rat(3336, 10000)>>, <<Cls("silver"), Rat(3334, 10000)>>,
                     <<Cls("bronze"), Rat(333, 1000)>> >>),
      \* 0.0625, 0.1875, 0.75: products that lie halfway between two integers
      DictRequest(<< <<Cls("gold"), Rat(1, 16)>>, <<Cls("silver"), Rat(3, 16)>>,
                     <<Cls("bronze"), Rat(3, 4)>> >>),
      \* 0.3336, 0.3336, 0.3328: two products that round up
      DictRequest(<< <<Cls("gold"), Rat(3336, 10000)>>, <<Cls("silver"), Rat(3336, 10000)>>,
                     <<Cls("bronze"), Rat(3328, 10000)>> >>),
      DictRequest(<< <<Cls("gold"), Rat(5, 10)>>, <<Cls("silver"), NaN>>,
                     <<Cls("bronze"), Rat(5, 10)>> >>) }

\* the requests of at most MaxClasses classes
RatePool == {request \in AllRequests : Len(request.items) <= MaxClasses}

InitRate ==
    /\ InitIdleParser
    /\ InitEnv
    /\ raw = <<>>
    /\ source_count_per_class = EmptyDict

\* the outcomes of n calls in a row: each returns or raises
Outcomes(n) == [1..n -> BOOLEAN]

ApplyRateLimits ==
    \E request \in RatePool :
        \/ apply_rate_limits(request, FALSE, <<>>)
        \/ \E ok \in Outcomes(Len(request.items)) : apply_rate_limits(request, TRUE, ok)

\* source -> weight maps, the last one empty
SourceWeights ==
    << [s \in {Str("s1"), Str("s2")} |-> IF s = Str("s1") THEN Rat(7, 10) ELSE Rat(3, 10)],
       [s \in {Str("s1")} |-> One],
       EmptyDict >>

\* class -> pod -> body maps: pods with and without an IP, a pod and a class that
\* discovery did not return, and the empty map
PushPool ==
    { <<>>,
      << <<Cls("gold"), << <<Str("p1"), SourceWeights[1]>> >> >>,
         <<Cls("silver"), << <<Str("p2"), SourceWeights[2]>> >> >> >>,
      << <<Cls("gold"), << <<Str("p3"), SourceWeights[2]>>, <<Str("p1"), SourceWeights[2]>> >> >>,
         <<Cls("silver"), << <<Str("p2"), SourceWeights[1]>> >> >> >>,
      << <<Cls("bronze"), << <<Str("p4"), SourceWeights[2]>> >> >>,
         <<Cls("gold"), << <<Str("p9"), SourceWeights[2]>>, <<Str("p1"), SourceWeights[3]>> >> >> >>,
      << <<Cls("platinum"), << <<Str("p1"), SourceWeights[2]>> >> >>,
         <<Cls("silver"), << <<Str("p2"), SourceWeights[2]>> >> >> >> }

PushSlos ==
    \E slo_updates \in PushPool : \E ok \in Outcomes(Len(Targets(slo_updates))) :
        push_slos_to_pods(slo_updates, ok)

PushWeights ==
    \E weights_by_class \in PushPool : \E ok \in Outcomes(Len(Targets(weights_by_class))) :
        push_weights_to_pods(weights_by_class, ok)

NextRate ==
    \/ ApplyRateLimits
    \/ PushSlos
    \/ PushWeights

SpecRate == InitRate /\ [][NextRate]_vars

-----------------------------------------------------------------------------
(* Claims about the observation transformer, checked under SpecObs.        *)

\* the leaves of the stored tree, as <<class, pod, source>>
LeafKeys ==
    {k \in UNION {UNION {{<<c, p, s>> : s \in DOMAIN metrics.val[c][p]}
                            : p \in DOMAIN metrics.val[c]} : c \in DOMAIN metrics.val} : TRUE}
Leaf(k) == metrics.val[k[1]][k[2]][k[3]]

Observed == call.op = "get_observations"
Returned == Observed /\ call.exc = "none"

\* the classes of the tree the last response builds
ClassesOf(result) == DOMAIN TreeOf(Filed(result))

\* a source count that is zero or unknown
NoSources(sc, c) == c \notin DOMAIN sc \/ sc[c] = ScInt(0)

\* C1 (as claimed): a call on a tree holding a class whose source count is zero or
\* unknown fails with the dedicated ConfigurationError, and never with a division
\* fault or a type fault.
C1_ConfigurationError ==
    (Observed /\ \E c \in ClassesOf(raw) : NoSources(call.sc_in, c))
        => call.exc = "ConfigurationError"

\* C2 (as claimed): staleness_ratio <= 1.0, and = 1.0 exactly when
\* forwarded_batches == 0.
C2_StaleExactlyWhenNothingForwarded ==
    Returned =>
        \A k \in LeafKeys :
            /\ RatLe(Leaf(k)["staleness_ratio"], One)
            /\ Leaf(k)["staleness_ratio"] = One
                   <=> IsZero(MetricGet(Leaf(k), "forwarded_batches"))

\* C2 (amended): staleness_ratio <= 1.0, and = 1.0 exactly when
\* forwarded_batches == 0 or fresh_good_batches == 0.
C2_StaleExactlyWhenNothingFresh ==
    Returned =>
        \A k \in LeafKeys :
            /\ RatLe(Leaf(k)["staleness_ratio"], One)
            /\ Leaf(k)["staleness_ratio"] = One
                   <=> \/ IsZero(MetricGet(Leaf(k), "forwarded_batches"))
                       \/ IsZero(MetricGet(Leaf(k), "fresh_good_batches"))

\* C2's case: a tree with a leaf that forwarded nothing, and a leaf that forwarded
\* batches none of which was fresh, both maximally stale.
C2_Witness ==
    /\ Returned
    /\ \E k \in LeafKeys : /\ IsZero(MetricGet(Leaf(k), "forwarded_batches"))
                           /\ Leaf(k)["staleness_ratio"] = One
    /\ \E k \in LeafKeys : /\ ~IsZero(MetricGet(Leaf(k), "forwarded_batches"))
                           /\ IsZero(MetricGet(Leaf(k), "fresh_good_batches"))
                           /\ Leaf(k)["staleness_ratio"] = One

\* C3: drop_ratio is dropped_batches / (forwarded_batches + dropped_batches) when
\* that denominator is non-zero and 0.0 when it is zero, and lies in [0, 1].
C3_DropRatio ==
    Returned =>
        \A k \in LeafKeys :
            LET total == RatAdd(MetricGet(Leaf(k), "forwarded_batches"),
                                MetricGet(Leaf(k), "dropped_batches"))
                ratio == Leaf(k)["drop_ratio"]
            IN  /\ IsZero(total) => ratio = Zero
                /\ ~IsZero(total) =>
                       RatMul(ratio, total) = MetricGet(Leaf(k), "dropped_batches")
                /\ RatLe(Zero, ratio) /\ RatLe(ratio, One)

\* C3's case: a tree with a leaf whose ratio is a proper fraction and a leaf with no
\* batch at all.
C3_Witness ==
    /\ Returned
    /\ \E k \in LeafKeys : /\ RatLt(Zero, Leaf(k)["drop_ratio"])
                           /\ RatLt(Leaf(k)["drop_ratio"], One)
    /\ \E k \in LeafKeys : /\ IsZero(MetricGet(Leaf(k), "forwarded_batches"))
                           /\ IsZero(MetricGet(Leaf(k), "dropped_batches"))
                           /\ Leaf(k)["drop_ratio"] = Zero

\* the key a value is owed a leaf under: "global" for each missing component
SentinelKey(label) ==
    LET k == parse_key(label)
    IN  [i \in 1..3 |-> IF k[i].some THEN k[i].val ELSE GlobalKey]

\* C4 (as claimed): every labelled value of the response is in the output tree, under
\* the key of its label with "global" standing in for each missing component.
C4_NoValueDropped ==
    Returned =>
        \A i \in 1..Len(raw) : \A j \in 1..Len(raw[i].items) :
            LET k == SentinelKey(raw[i].items[j][1])
            IN  /\ k \in LeafKeys
                /\ raw[i].metric \in DOMAIN Leaf(k)
                /\ Leaf(k)[raw[i].metric] = raw[i].items[j][2]

\* C5 (as claimed): when the fetch fails with a transport error, get_observations on
\* the error result still completes without raising.
C5_TransportErrorDegrades ==
    (Observed /\ raw = ErrorResult) => call.exc = "none"

\* C7 (as claimed): a call, whether it returns or raises, leaves the source-count
\* configuration as it was, and a second call on the same response gives the same
\* outcome.
C7_Pure ==
    Observed =>
        /\ call.sc_out = call.sc_in
        /\ LET again == transform_observations(raw, class_queue_capacity,
                                               source_count_per_class)
           IN  /\ again.exc = call.exc
               /\ again.exc = "none" => again.tree = metrics.val

-----------------------------------------------------------------------------
(* SpecParse: a label joined from up to MaxSegs segments, parsed once.     *)

SegPool ==
    { Seg("class", "gold"),
      Seg("class", "silver"),
      Seg("pod", "p1"),
      Seg("source", "s1"),
      <<"bad">>,                                            \* no '='
      <<Space, "class", Space, Equals, Space, "x", Space>>,  \* " class = x "
      <<"pod", Equals, "a", Equals, "b">>,                  \* "pod=a=b"
      <<Equals, "v">>,                                      \* "=v"
      <<>> }                                                \* ""

SegSeqs == UNION {[1..n -> SegPool] : n \in 0..MaxSegs}

InitParse ==
    /\ segs \in SegSeqs
    /\ parsed = NotParsed
    /\ InitEnv
    /\ raw = <<>>
    /\ source_count_per_class = EmptyDict

ParseKey ==
    /\ ~parsed.done
    /\ parsed' = [done |-> TRUE, triple |-> parse_key(Join(segs, Comma))]
    /\ UNCHANGED <<segs, raw, source_count_per_class, metrics, importance_parameters,
                   current_class_weights, call>>

NextParse == ParseKey

SpecParse == InitParse /\ [][NextParse]_vars

\* a text without the blanks at its ends
Trim(s) ==
    LET nb == {i \in 1..Len(s) : s[i] # Space}
    IN  IF nb = {} THEN <<>>
        ELSE SubSeq(s, CHOOSE i \in nb : \A j \in nb : i <= j,
                       CHOOSE i \in nb : \A j \in nb : j <= i)

\* a segment with a '=': the text before the first one and the text after it
WellFormed(seg) == \E i \in 1..Len(seg) : seg[i] = Equals
FirstEq(seg) == CHOOSE i \in 1..Len(seg) : seg[i] = Equals /\ \A j \in 1..(i - 1) : seg[j] # Equals
KeyOf(seg) == Trim(SubSeq(seg, 1, FirstEq(seg) - 1))
ValueOf(seg) == Trim(SubSeq(seg, FirstEq(seg) + 1, Len(seg)))

\* what the last well-formed segment with the key holds; None without one
LastWins(ss, key) ==
    LET with == {i \in 1..Len(ss) : WellFormed(ss[i]) /\ KeyOf(ss[i]) = key}
    IN  IF with = {} THEN None
        ELSE Some(ValueOf(ss[CHOOSE i \in with : \A j \in with : j <= i]))

DistinctKeys(ss) ==
    \A i, j \in 1..Len(ss) :
        (i # j /\ WellFormed(ss[i]) /\ WellFormed(ss[j])) => KeyOf(ss[i]) # KeyOf(ss[j])

Orders(n) == {f \in [1..n -> 1..n] : \A i, j \in 1..n : f[i] = f[j] => i = j}

\* C6: the parser returns, for class, pod and source, what the last segment with a
\* '=' and that key holds (None when no segment has the key), skipping the segments
\* without '='; and the triple is the same for every order of segments whose keys
\* are pairwise distinct.
C6_LastWinsAnyOrder ==
    parsed.done =>
        /\ parsed.triple = <<LastWins(segs, Str("class")), LastWins(segs, Str("pod")),
                             LastWins(segs, Str("source"))>>
        /\ DistinctKeys(segs) =>
               \A f \in Orders(Len(segs)) :
                   parse_key(Join([i \in 1..Len(segs) |-> segs[f[i]]], Comma))
                       = parsed.triple

\* C6's case: a label with a segment without '=', and a class given twice, parsed to
\* the later class and to no pod.
C6_Witness ==
    /\ parsed.done
    /\ \E i, j, k \in 1..Len(segs) :
           /\ ~WellFormed(segs[i])
           /\ j < k
           /\ segs[j] = Seg("class", "gold")
           /\ segs[k] = Seg("class", "silver")
    /\ parsed.triple[1] = Some(Str("silver"))
    /\ parsed.triple[2] = None

-----------------------------------------------------------------------------
(* Claims about the urgency scorer, checked under SpecScore.               *)

\* a total that is 1.0 within 1e-6
SumsToOne(total) ==
    ~IsNaN(total) /\ RatLe(RatAbs(RatSub(total, One)), Rat(1, 1000000))

Computed == call.op = "compute_source_weights_per_class"

\* the sum of the three named weights
ThreeWeights(params) ==
    RatAdd(RatAdd(ParamGet(params, "staleness"), ParamGet(params, "batch_loss")),
           ParamGet(params, "backlog"))

\* the (class, pod) groups of the tree scored that hold a source
Groups ==
    UNION {{<<c, p>> : p \in {q \in DOMAIN metrics.val[c] : DOMAIN metrics.val[c][q] # {}}}
               : c \in DOMAIN metrics.val}

\* the raw scores and the weights returned for a group
GroupScores(g) ==
    [s \in DOMAIN metrics.val[g[1]][g[2]] |-> Score(metrics.val[g[1]][g[2]][s], call.params)]
GroupWeights(g) == call.ret[g[1]][g[2]]

\* whether the raw scores of a group are numbers
Finite(scores) == \A s \in DOMAIN scores : ~IsNaN(scores[s])

\* C8 (as claimed): the weights of every group with a source are each in (0, 1] and
\* sum to 1.0 within 1e-6, whatever the scale of the raw scores.
C8_WeightsPositive ==
    (Computed /\ call.exc # "ValueError") =>
        /\ call.exc = "none"
        /\ \A g \in Groups :
               Finite(GroupScores(g)) =>
                   /\ DOMAIN GroupWeights(g) = DOMAIN GroupScores(g)
                   /\ \A s \in DOMAIN GroupWeights(g) :
                          RatLt(Zero, GroupWeights(g)[s]) /\ RatLe(GroupWeights(g)[s], One)
                   /\ SumsToOne(SumOver(GroupWeights(g), DOMAIN GroupWeights(g)))

\* C8 (amended): a call that passes the validation does not fail in the exponential,
\* and the weights of every group with a source and with raw scores that are numbers
\* are each in [0, 1] and sum to 1.0 within 1e-6, whatever the scale of the scores: no
\* exponent argument is positive, a source with the maximal score has a weight in
\* (0, 1], and a source whose score lies 746 or more below the maximal one has the
\* weight 0.0.
C8_WeightsNormalised ==
    (Computed /\ call.exc # "ValueError") =>
        /\ call.exc = "none"
        /\ \A g \in Groups :
               LET scores == GroupScores(g)
                   weights == GroupWeights(g)
                   top == CHOOSE s \in DOMAIN scores :
                              \A r \in DOMAIN scores : RatLe(scores[r], scores[s])
               IN  Finite(scores) =>
                       /\ DOMAIN weights = DOMAIN scores
                       /\ \A s \in DOMAIN weights :
                              /\ RatLe(Zero, weights[s]) /\ RatLe(weights[s], One)
                              /\ RatLe(RatSub(scores[s], Shift(scores)), Zero)
                              /\ scores[s] = scores[top] => RatLt(Zero, weights[s])
                              /\ Floor(RatSub(scores[top], scores[s])) >= ExpUnderflow
                                     => weights[s] = Zero
                       /\ SumsToOne(SumOver(weights, DOMAIN weights))

\* C8's case: a pod with two sources whose scores lie so far apart that one is given
\* all the weight and the other none.
C8_Witness ==
    /\ Computed /\ call.exc = "none"
    /\ \E g \in Groups : \E s, r \in DOMAIN GroupWeights(g) :
           /\ s # r
           /\ Finite(GroupScores(g))
           /\ GroupWeights(g)[s] = One
           /\ GroupWeights(g)[r] = Zero

\* C9: every call validates the importance parameters it finds: when the three
\* weights do not sum to 1.0 within 1e-6 the call raises the validation error, has
\* computed no score and returns nothing; when they do, it is not rejected.
C9_ValidatedEveryCall ==
    Computed =>
        /\ ~SumsToOne(ThreeWeights(call.params)) =>
               /\ call.exc = "ValueError"
               /\ call.scored = 0
               /\ call.ret = NoCall.ret
        /\ SumsToOne(ThreeWeights(call.params)) => call.exc # "ValueError"

-----------------------------------------------------------------------------
(* Claims about the rate-limit actuator, checked under SpecRate.           *)

Applied == call.op = "apply_rate_limits"

RECURSIVE WeightSum(_, _)
WeightSum(items, i) ==
    IF i > Len(items) THEN Zero ELSE RatAdd(items[i][2], WeightSum(items, i + 1))

\* a request that is not a mapping, is empty, or does not sum to 1.0 within 1e-6
InvalidRequest(request) ==
    \/ ~request.isdict
    \/ request.items = <<>>
    \/ ~SumsToOne(WeightSum(request.items, 1))

\* C10: a call with class weights that are empty, not a mapping, or off 1.0 raises the
\* validation error before any side effect: no patch is issued and
\* current_class_weights is what it was.
C10_RejectedBeforeSideEffects ==
    (Applied /\ InvalidRequest(call.request)) =>
        /\ call.exc = "ValueError"
        /\ call.patches = <<>>
        /\ current_class_weights = call.ccw_in

\* the request of the specification's example
ExampleRequest ==
    DictRequest(<< <<Cls("gold"), Rat(5, 10)>>, <<Cls("silver"), Rat(3, 10)>>,
                   <<Cls("bronze"), Rat(2, 10)>> >>)

\* k is weight * total_ingestion_rate rounded to an integer: the nearest one, and the
\* even one of the two when it lies halfway
RoundedProduct(k, weight) ==
    LET x == RatMul(Num(total_ingestion_rate), weight)
        twice == RatAbs(RatSub(RatAdd(x, x), Num(2 * k)))     \* 2 * |x - k|
    IN  \/ RatLt(twice, One)
        \/ twice = One /\ k % 2 = 0

\* C11: in a call with a valid request that returns, the patch of every class carries
\* tokens = round(weight * total_ingestion_rate), an integer, as maxTokens and as
\* tokensPerFill, with a fill interval of one minute; the weights 0.5, 0.3, 0.2 give
\* 500, 300, 200.
C11_TokensRounded ==
    (Applied /\ call.exc = "none") =>
        LET items == call.request.items
        IN  /\ Len(call.patches) = Len(items)
            /\ \A i \in 1..Len(items) :
                   /\ call.patches[i].name = items[i][1]
                   /\ call.patches[i].maxTokens \in Int
                   /\ RoundedProduct(call.patches[i].maxTokens, items[i][2])
                   /\ call.patches[i].tokensPerFill = call.patches[i].maxTokens
                   /\ call.patches[i].fillInterval = "1m"
            /\ call.request = ExampleRequest =>
                   [i \in 1..3 |-> call.patches[i].maxTokens] = <<500, 300, 200>>

\* C11's case: the example request patched in full, and before it a request whose
\* products are rounded up, down and to the even neighbour.
C11_Witness ==
    /\ Applied /\ call.exc = "none"
    /\ call.request = ExampleRequest
    /\ \A i \in 1..3 : call.patches[i].ok
    /\ call.ccw_in = [c \in {Cls("gold"), Cls("silver"), Cls("bronze")} |->
                         IF c = Cls("gold") THEN Rat(1, 16)
                         ELSE IF c = Cls("silver") THEN Rat(3, 16) ELSE Rat(3, 4)]

Pushed == call.op \in {"push_slos_to_pods", "push_weights_to_pods"}

\* the call reached the loop over the classes: the request passed the validation
\* and the cluster configuration loaded
LoopRan == Applied /\ ~RequestRejected(call.request) /\ call.exc # "RuntimeError"

\* the (class, pod) entries of a pushed map, and where each stands in it
Entry(i) == <<Targets(call.pushed)[i].cls, Targets(call.pushed)[i].pod>>
Known(i) ==
    /\ Entry(i)[1] \in DOMAIN class_pods
    /\ Entry(i)[2] \in DOMAIN class_pods[Entry(i)[1]]
    /\ class_pods[Entry(i)[1]][Entry(i)[2]] = TRUE
PostsOf(i) == {j \in 1..Len(call.posts) : <<call.posts[j].cls, call.posts[j].pod>> = Entry(i)}

\* C12: each actuator loop attempts its targets one at a time in request order, and
\* every target with a known address exactly once, whatever the outcomes of the
\* others: the patches of apply_rate_limits are one per class of the request, in its
\* order, and the POSTs of a push are one per pod of the map that has an IP, in its
\* order.
C12_EveryTargetAttempted ==
    /\ LoopRan =>
           [i \in 1..Len(call.patches) |-> call.patches[i].name]
               = [i \in 1..Len(call.request.items) |-> call.request.items[i][1]]
    /\ Pushed =>
           /\ \A i \in 1..Len(Targets(call.pushed)) :
                  Cardinality(PostsOf(i)) = IF Known(i) THEN 1 ELSE 0
           /\ \A j \in 1..Len(call.posts) :
                  \E i \in 1..Len(Targets(call.pushed)) : j \in PostsOf(i)
           /\ \A i, k \in 1..Len(Targets(call.pushed)) :
                  (i < k /\ Known(i) /\ Known(k)) =>
                      \A j \in PostsOf(i) : \A l \in PostsOf(k) : j < l

-----------------------------------------------------------------------------
(* The class aggregator: aggregate_class_metrics.                          *)

\* Python's float arithmetic rounds every result to the nearest representable
\* number, a tie to the even mantissa. The aggregator's running sums are where
\* the order of the additions is the subject of a claim, so its additions and
\* divisions round, to a mantissa of MantissaBits bits (53 in the interpreter).
MantissaBits == 8

RECURSIVE Pow2(_)
Pow2(k) == IF k = 0 THEN 1 ELSE 2 * Pow2(k - 1)

\* the weight of the last mantissa bit of a > 0: the power of two q with
\* 2^(MantissaBits-1) <= a / q < 2^MantissaBits
RECURSIVE Quantum(_, _)
Quantum(a, q) ==
    IF ~RatLt(a, RatMul(q, Num(Pow2(MantissaBits)))) THEN Quantum(a, RatAdd(q, q))
    ELSE IF RatLt(a, RatMul(q, Num(Pow2(MantissaBits - 1))))
         THEN Quantum(a, RatDiv(q, Num(2)))
    ELSE q

\* the float nearest to x
Fl(x) ==
    IF IsNaN(x) \/ IsZero(x) THEN x
    ELSE LET q == Quantum(RatAbs(x), One)
             r == RatMul(Num(RoundHalfEven(RatDiv(RatAbs(x), q))), q)
         IN  IF RatLt(x, Zero) THEN RatNeg(r) ELSE r

\* lines 349-352: sum += value
FlAdd(x, y) == Fl(RatAdd(x, y))
\* lines 369-372: sum / count
FlDiv(x, y) == Fl(RatDiv(x, y))

\* A dict in insertion order: a sequence of <<key, value>>.
OKeys(d) == {d[i][1] : i \in 1..Len(d)}
OGet(d, k, default) ==
    IF k \in OKeys(d) THEN d[CHOOSE i \in 1..Len(d) : d[i][1] = k][2] ELSE default
\* d[k] = v: a known key keeps its place, a new one goes last
OPut(d, k, v) ==
    IF k \in OKeys(d) THEN [i \in 1..Len(d) |-> IF d[i][1] = k THEN <<k, v>> ELSE d[i]]
    ELSE Append(d, <<k, v>>)

\* One insertion into an observation tree: a leaf tree[cls][pod][src] = m, or a
\* class without a pod.
LeafItem(c, p, s, m) == [cls |-> Cls(c), pod |-> Some(Str(p)), src |-> Some(Str(s)), m |-> m]
ClassItem(c) == [cls |-> Cls(c), pod |-> None, src |-> None, m |-> EmptyDict]

Insert(tree, it) ==
    LET pods == OGet(tree, it.cls, <<>>)
        sources == OGet(pods, it.pod.val, <<>>)
    IN  IF ~it.pod.some THEN OPut(tree, it.cls, pods)
        ELSE OPut(tree, it.cls, OPut(pods, it.pod.val, OPut(sources, it.src.val, it.m)))

\* the tree the insertions build, class -> pod -> source -> metrics, each level
\* in insertion order
RECURSIVE TreeFrom(_, _)
TreeFrom(tree, items) ==
    IF Len(items) = 0 THEN tree
    ELSE TreeFrom(Insert(tree, Head(items)), Tail(items))

\* lines 342-343: the leaves of a class in the order the two loops visit them
RECURSIVE LeavesOf(_)
LeavesOf(pods) ==
    IF Len(pods) = 0 THEN <<>>
    ELSE [i \in 1..Len(Head(pods)[2]) |-> Head(pods)[2][i][2]] \o LeavesOf(Tail(pods))

\* the mutant of RunningMax: the comparison the other way round
RunningMin(cur, v) == IF RatLt(v, cur) THEN v ELSE cur

\* the mutant of RunningMax: the last value stands
RunningLast(cur, v) == v

\* lines 354-359: if v > cur: cur = v
RunningMax(cur, v) == IF RatLt(cur, v) THEN v ELSE cur

\* lines 332-340: the accumulators before the first leaf
Accumulators ==
    [queue_sum |-> Zero, drop_sum |-> Zero, stale_sum |-> Zero, starvation_sum |-> Zero,
     q_max |-> Zero, d_max |-> Zero, s_max |-> Zero, count |-> 0]

\* lines 344-361: one leaf accumulated
Accumulate(acc, m) ==
    LET qr == MetricGet(m, "queue_ratio")
        dr == MetricGet(m, "drop_ratio")
        sr == MetricGet(m, "staleness_ratio")
        sf == MetricGet(m, "starvation_flag")
    IN  [queue_sum |-> FlAdd(acc.queue_sum, qr),
         drop_sum |-> FlAdd(acc.drop_sum, dr),
         stale_sum |-> FlAdd(acc.stale_sum, sr),
         starvation_sum |-> FlAdd(acc.starvation_sum, sf),
         q_max |-> RunningMax(acc.q_max, qr),
         d_max |-> RunningMax(acc.d_max, dr),
         s_max |-> RunningMax(acc.s_max, sr),
         count |-> acc.count + 1]

RECURSIVE AccumulateAll(_, _)
AccumulateAll(acc, leaves) ==
    IF Len(leaves) = 0 THEN acc
    ELSE AccumulateAll(Accumulate(acc, Head(leaves)), Tail(leaves))

\* the mutant of Average: the sum left undivided
AverageUndivided(sum, count) == sum

\* lines 363-372
Average(sum, count) == IF count = 0 THEN Zero ELSE FlDiv(sum, Num(count))

\* lines 332-382: the summary of one class
ClassSummary(pods) ==
    LET acc == AccumulateAll(Accumulators, LeavesOf(pods))
    IN  [f \in {"avg_queue_ratio", "avg_drop_ratio", "avg_staleness_ratio",
                "avg_starvation_flag", "max_queue_ratio", "max_drop_ratio",
                "max_staleness_ratio"} |->
            CASE f = "avg_queue_ratio" -> Average(acc.queue_sum, acc.count)
              [] f = "avg_drop_ratio" -> Average(acc.drop_sum, acc.count)
              [] f = "avg_staleness_ratio" -> Average(acc.stale_sum, acc.count)
              [] f = "avg_starvation_flag" -> Average(acc.starvation_sum, acc.count)
              [] f = "max_queue_ratio" -> acc.q_max
              [] f = "max_drop_ratio" -> acc.d_max
              [] f = "max_staleness_ratio" -> acc.s_max]

\* the mutant of ClassOfLabel: the value of the label's first segment, whatever its key
ClassOfFirstSegment(label) ==
    LET part == Head(Split(label, Comma))
    IN  IF Contains(part, Equals) THEN Some(SplitFirst(part, Equals)[2]) ELSE None

\* lines 319-323: the value of the first segment that starts with "class="
RECURSIVE ClassOfParts(_)
ClassOfParts(parts) ==
    IF Len(parts) = 0 THEN None
    ELSE IF Len(Head(parts)) >= 2 /\ Head(parts)[1] = "class" /\ Head(parts)[2] = Equals
         THEN Some(SplitFirst(Head(parts), Equals)[2])
    ELSE ClassOfParts(Tail(parts))

ClassOfLabel(label) == ClassOfParts(Split(label, Comma))

\* lines 317-328: the class -> value map of one labelled metric; a later label of
\* a class replaces an earlier one, a label without a class is skipped
RECURSIVE ClassMap(_, _)
ClassMap(d, items) ==
    IF Len(items) = 0 THEN d
    ELSE LET cls == ClassOfLabel(Head(items)[1])
         IN  ClassMap(IF cls.some THEN OPut(d, cls.val, Head(items)[2]) ELSE d, Tail(items))

\* lines 312-316: metric -> class -> value; an entry that is no dict gives an empty map
metric_class_maps(extra_raw) ==
    [i \in 1..Len(extra_raw) |->
        <<extra_raw[i].metric,
          IF extra_raw[i].isdict THEN ClassMap(<<>>, extra_raw[i].items) ELSE <<>>>>]

\* lines 387-392: result[cls_name][metric_name] = val
MergeOne(result, cls_name, metric_name, val) ==
    DictPut(result, cls_name,
            DictPut(IF cls_name \in DOMAIN result THEN result[cls_name] ELSE EmptyDict,
                    metric_name, val))

RECURSIVE MergeMap(_, _, _)
MergeMap(result, metric_name, class_map) ==
    IF Len(class_map) = 0 THEN result
    ELSE MergeMap(MergeOne(result, Head(class_map)[1], metric_name, Head(class_map)[2]),
                  metric_name, Tail(class_map))

\* lines 385-392
RECURSIVE Merge(_, _)
Merge(result, maps) ==
    IF Len(maps) = 0 THEN result
    ELSE Merge(MergeMap(result, Head(maps)[1], Head(maps)[2]), Tail(maps))

\* lines 330-382: the summaries of the classes of the tree
Summaries(observations) ==
    [c \in OKeys(observations) |-> ClassSummary(OGet(observations, c, <<>>))]

\* what aggregate_class_metrics returns for a tree and the response extra_raw of
\* its own fetch of demand_rate and rejection_rate
Aggregated(observations, extra_raw) ==
    Merge(Summaries(observations), metric_class_maps(extra_raw))

-----------------------------------------------------------------------------
(* The aggregator called on its own: aggregate_class_metrics takes any     *)
(* tree, also one with a class or a pod that holds no leaf.                *)

MaxItems == 3

LeafMetrics(q, d, s, f) ==
    [queue_ratio |-> q, drop_ratio |-> d, staleness_ratio |-> s, starvation_flag |-> f]

\* the insertions the trees are built from: leaves as transform_observations
\* derives them (a staleness below 0: more fresh batches than forwarded ones)
\* and a class without a pod
AggItems ==
    { LeafItem("gold", "p1", "s1", LeafMetrics(Rat(1, 2), One, Rat(1, 2), Zero)),
      LeafItem("gold", "p1", "s2", LeafMetrics(Rat(1, 4), Rat(1, 256), Rat(-1, 2), Zero)),
      LeafItem("gold", "p3", "s1", LeafMetrics(Rat(3, 4), Rat(1, 256), One, One)),
      LeafItem("silver", "p2", "s1", LeafMetrics(Rat(1, 4), Zero, Rat(-1, 2), Zero)),
      ClassItem("bronze") }

Sequences(S, n) == UNION {{q \in [1..k -> S] : \A i, j \in 1..k : q[i] = q[j] => i = j} : k \in 0..n}

\* every tree of at most MaxItems insertions, in every insertion order
AggTrees == {TreeFrom(<<>>, items) : items \in Sequences(AggItems, MaxItems)}

\* the responses to the aggregator's own fetch: a transport error, a reply without
\* content, and bodies whose labels carry the class alone, the class among other
\* fields, no class, or a class the tree does not hold
ExtraPool ==
    { ErrorResult,
      NoContentResult,
      << DictEntry("demand_rate", << <<Seg("class", "gold"), Num(40)>>,
                                     <<Seg("pod", "p9"), Num(3)>>,
                                     <<Join(<<Seg("class", "platinum"), Seg("pod", "p7")>>, Comma), Num(7)>> >>),
         DictEntry("rejection_rate", << <<Join(<<Seg("pod", "p1"), Seg("class", "gold")>>, Comma), Rat(1, 2)>> >>) >>,
      << DictEntry("demand_rate", << <<Join(<<Seg("class", "gold"), Seg("pod", "p1")>>, Comma), Num(40)>>,
                                     <<Join(<<Seg("class", "gold"), Seg("pod", "p3")>>, Comma), Num(50)>> >>),
         DictEntry("rejection_rate", << <<Seg("class", "silver"), Num(2)>> >>) >> }

\* the aggregator's result for every tree and response of the pools
AggResults == [t \in AggTrees, x \in ExtraPool |-> Aggregated(t, x)]

\* lines 295-394: the call stores nothing in the environment
aggregate_class_metrics(observations, extra_raw) ==
    /\ raw' = extra_raw
    /\ call' = [NoCall EXCEPT !.op = "aggregate_class_metrics",
                              !.observations = observations,
                              !.ret = AggResults[observations, extra_raw]]
    /\ UNCHANGED <<segs, parsed, source_count_per_class, metrics,
                   importance_parameters, current_class_weights>>

InitAgg ==
    /\ InitIdleParser
    /\ InitEnv
    /\ raw = <<>>
    /\ source_count_per_class = EmptyDict

AggregateClassMetrics ==
    \E observations \in AggTrees, extra_raw \in ExtraPool :
        aggregate_class_metrics(observations, extra_raw)

NextAgg == AggregateClassMetrics

SpecAgg == InitAgg /\ [][NextAgg]_vars

-----------------------------------------------------------------------------
(* SpecStore: an environment whose pods reported two gold sources and one  *)
(* silver source; every get_observations call meets another response of    *)
(* the metrics endpoint, or a transport error, and the scorer is called at *)
(* any time.                                                               *)

\* the responses: the end-to-end sample on any labels, or on the first label a
\* sample that holds a queue length alone
StorePool ==
    {ErrorResult}
    \cup {RawOf(a) : a \in {b \in Assignments({Sample(10, 5, 2, 3),
                                                Sample(Absent, Absent, Absent, 3)}) :
                                \A i \in 2..Len(LabelPool) :
                                    b[i] # Sample(Absent, Absent, Absent, 3)}}

InitStore ==
    /\ InitIdleParser
    /\ InitEnv
    /\ raw = <<>>
    /\ source_count_per_class =
           FetchResult(EmptyDict,
                       [c \in Asked |-> [ok |-> TRUE,
                                         num_sources |-> IF c = Cls("gold") THEN ScInt(2)
                                                         ELSE ScInt(1)]])

NextStore ==
    \/ \E fetched \in StorePool : get_observations(fetched)
    \/ ComputeSourceWeights

SpecStore == InitStore /\ [][NextStore]_vars

-----------------------------------------------------------------------------
(* SpecCount: an environment whose pods have reported no source count yet; *)
(* fetch_class_info meets any reply of the pods, push_weights_to_pods any   *)
(* map of its pool with any outcome, and get_observations a response with   *)
(* one gold and one silver leaf.                                            *)

FetchClassInfo == \E reply \in [Asked -> PodReplies] : fetch_class_info(reply)

NextCount ==
    \/ FetchClassInfo
    \/ PushWeights
    \/ get_observations(RawOf([i \in 1..Len(LabelPool) |->
                                  IF i \in {1, 3} THEN Sample(10, 5, 2, 3) ELSE NoSample]))

SpecCount == InitRate /\ [][NextCount]_vars

-----------------------------------------------------------------------------
(* Claims about the aggregator.                                            *)

Aggregated_ == call.op = "aggregate_class_metrics"

Ratios == {"queue_ratio", "drop_ratio", "staleness_ratio", "starvation_flag"}
AvgField(name) ==
    CASE name = "queue_ratio" -> "avg_queue_ratio"
      [] name = "drop_ratio" -> "avg_drop_ratio"
      [] name = "staleness_ratio" -> "avg_staleness_ratio"
      [] name = "starvation_flag" -> "avg_starvation_flag"
MaxField(name) ==
    CASE name = "queue_ratio" -> "max_queue_ratio"
      [] name = "drop_ratio" -> "max_drop_ratio"
      [] name = "staleness_ratio" -> "max_staleness_ratio"
      [] name = "starvation_flag" -> "max_starvation_flag"

\* the values of a metric over the leaves of class c of a tree
ValuesOf(tree, c, name) ==
    LET leaves == LeavesOf(OGet(tree, c, <<>>))
    IN  [i \in 1..Len(leaves) |-> MetricGet(leaves[i], name)]

RECURSIVE ExactSum(_)
ExactSum(vs) == IF Len(vs) = 0 THEN Zero ELSE RatAdd(Head(vs), ExactSum(Tail(vs)))
RECURSIVE AbsSum(_)
AbsSum(vs) == IF Len(vs) = 0 THEN Zero ELSE RatAdd(RatAbs(Head(vs)), AbsSum(Tail(vs)))

\* the relative error of one float operation
Roundoff == Rat(1, Pow2(MantissaBits))

\* avg is the mean of vs up to the rounding of the len(vs) float operations that
\* compute it: |avg * n - sum| <= 2 * n * Roundoff * sum of |v|
MeanOf(avg, vs) ==
    RatLe(RatAbs(RatSub(RatMul(avg, Num(Len(vs))), ExactSum(vs))),
          RatMul(RatMul(Num(2 * Len(vs)), Roundoff), AbsSum(vs)))

\* C13: every average of a class of the tree is the sum of the metric over the
\* leaves of the class divided by their number (as floats compute it); a class
\* without a leaf has every average and every maximum 0, and the call returns.
C13_AveragesAreMeans ==
    Aggregated_ =>
        /\ call.exc = "none"
        /\ \A c \in OKeys(call.observations) :
               /\ \A name \in Ratios :
                      LET vs == ValuesOf(call.observations, c, name)
                      IN  IF Len(vs) = 0 THEN call.ret[c][AvgField(name)] = Zero
                          ELSE MeanOf(call.ret[c][AvgField(name)], vs)
               /\ Len(LeavesOf(OGet(call.observations, c, <<>>))) = 0 =>
                      \A f \in {"max_queue_ratio", "max_drop_ratio", "max_staleness_ratio"} :
                          call.ret[c][f] = Zero

\* C13's case: a class with several leaves and a mean that is not 0, next to a
\* class without a leaf.
C13_Witness ==
    /\ Aggregated_
    /\ \E c \in OKeys(call.observations) :
           /\ Len(ValuesOf(call.observations, c, "queue_ratio")) >= 2
           /\ RatLt(Zero, call.ret[c]["avg_queue_ratio"])
    /\ \E c \in OKeys(call.observations) :
           Len(LeavesOf(OGet(call.observations, c, <<>>))) = 0

\* the largest of a non-empty sequence of values
Largest(vs) == CHOOSE v \in {vs[i] : i \in 1..Len(vs)} : \A i \in 1..Len(vs) : RatLe(vs[i], v)

\* C14 as the specification states it: a class with a leaf has a maximum field
\* for each of the four metrics, the largest value of the metric over its leaves.
C14_MaximumOfEveryMetric ==
    Aggregated_ =>
        \A c \in OKeys(call.observations) : \A name \in Ratios :
            LET vs == ValuesOf(call.observations, c, name)
            IN  Len(vs) >= 1 =>
                    /\ MaxField(name) \in DOMAIN call.ret[c]
                    /\ call.ret[c][MaxField(name)] = Largest(vs)

\* C14: a class with a leaf has a maximum field for each of queue_ratio,
\* drop_ratio and staleness_ratio, the largest value of the metric over its
\* leaves or 0 when that value is below 0, and none for starvation_flag.
C14_MaximumOfEveryRatio ==
    Aggregated_ =>
        \A c \in OKeys(call.observations) :
            Len(LeavesOf(OGet(call.observations, c, <<>>))) >= 1 =>
                /\ \A name \in Ratios \ {"starvation_flag"} :
                       LET vs == ValuesOf(call.observations, c, name)
                       IN  /\ MaxField(name) \in DOMAIN call.ret[c]
                           /\ call.ret[c][MaxField(name)] =
                                  IF RatLt(Largest(vs), Zero) THEN Zero ELSE Largest(vs)
                /\ MaxField("starvation_flag") \notin DOMAIN call.ret[c]

\* C14's case: a class whose largest staleness comes before a smaller one, next to
\* a class whose every staleness is below 0.
C14_Witness ==
    /\ Aggregated_
    /\ \E c \in OKeys(call.observations) :
           LET vs == ValuesOf(call.observations, c, "staleness_ratio")
           IN  /\ Len(vs) >= 2
               /\ RatLt(vs[Len(vs)], vs[1])
               /\ call.ret[c]["max_staleness_ratio"] = vs[1]
    /\ \E c \in OKeys(call.observations) :
           LET vs == ValuesOf(call.observations, c, "staleness_ratio")
           IN  /\ Len(vs) >= 1
               /\ RatLt(Largest(vs), Zero)
               /\ call.ret[c]["max_staleness_ratio"] = Zero

SummaryFields ==
    {"avg_queue_ratio", "avg_drop_ratio", "avg_staleness_ratio", "avg_starvation_flag",
     "max_queue_ratio", "max_drop_ratio", "max_staleness_ratio"}

\* the labels of a labelled metric of the response whose class key names c
Naming(e, c) == {i \in 1..Len(e.items) : parse_key(e.items[i][1])[1] = Some(c)}
\* the labelled metrics of the response that hold a value for class c
MetricsOf(c) == {i \in 1..Len(raw) : raw[i].isdict /\ Naming(raw[i], c) # {}}
\* the classes the response names
Named ==
    UNION {{parse_key(raw[i].items[j][1])[1].val :
               j \in {k \in 1..Len(raw[i].items) : parse_key(raw[i].items[k][1])[1].some}} :
           i \in {k \in 1..Len(raw) : raw[k].isdict}}

\* C15: the summary has an entry for every class of the tree and every class the
\* response names; the entry of a class holds, next to the averages and maxima of
\* a class of the tree, one field per metric of the response with a label whose
\* class key names it, whatever else the label holds: the value of the last such
\* label. A class of the response alone has these fields only.
C15_ScalarsMergedByClass ==
    Aggregated_ =>
        /\ DOMAIN call.ret = OKeys(call.observations) \cup Named
        /\ \A c \in DOMAIN call.ret :
               /\ DOMAIN call.ret[c] =
                      (IF c \in OKeys(call.observations) THEN SummaryFields ELSE {})
                          \cup {raw[i].metric : i \in MetricsOf(c)}
               /\ \A i \in MetricsOf(c) :
                      call.ret[c][raw[i].metric] =
                          raw[i].items[CHOOSE j \in Naming(raw[i], c) :
                                           \A k \in Naming(raw[i], c) : k <= j][2]
               /\ c \in OKeys(call.observations) =>
                      \A f \in SummaryFields :
                          call.ret[c][f] = ClassSummary(OGet(call.observations, c, <<>>))[f]

\* C15's case: a class of the tree named by a label that holds the class alone
\* and by one that holds it after a pod, next to a class of the response alone.
C15_Witness ==
    /\ Aggregated_
    /\ Cls("gold") \in OKeys(call.observations)
    /\ Len(LeavesOf(OGet(call.observations, Cls("gold"), <<>>))) >= 1
    /\ DOMAIN call.ret[Cls("gold")] = SummaryFields \cup {"demand_rate", "rejection_rate"}
    /\ call.ret[Cls("gold")]["demand_rate"] = Num(40)
    /\ call.ret[Cls("gold")]["rejection_rate"] = Rat(1, 2)
    /\ Cls("platinum") \in DOMAIN call.ret
    /\ DOMAIN call.ret[Cls("platinum")] = {"demand_rate"}

\* the insertions that hold what a tree holds: its leaves and its empty classes
RECURSIVE LeafItemsOf(_, _)
LeafItemsOf(c, pods) ==
    IF Len(pods) = 0 THEN <<>>
    ELSE [i \in 1..Len(Head(pods)[2]) |->
             [cls |-> c, pod |-> Some(Head(pods)[1]), src |-> Some(Head(pods)[2][i][1]),
              m |-> Head(pods)[2][i][2]]]
         \o LeafItemsOf(c, Tail(pods))
RECURSIVE ItemsOfTree(_)
ItemsOfTree(tree) ==
    IF Len(tree) = 0 THEN <<>>
    ELSE (IF Len(Head(tree)[2]) = 0
          THEN <<[cls |-> Head(tree)[1], pod |-> None, src |-> None, m |-> EmptyDict]>>
          ELSE LeafItemsOf(Head(tree)[1], Head(tree)[2]))
         \o ItemsOfTree(Tail(tree))

\* the summaries of every tree that holds what the tree of the call holds,
\* built in another order, with the same response
Reordered ==
    LET items == ItemsOfTree(call.observations)
    IN  {Aggregated(TreeFrom(<<>>, [i \in 1..Len(items) |-> items[f[i]]]), raw) :
             f \in Orders(Len(items))}

\* C16 as the specification states it: every order of insertion gives the same
\* summary.
C16_OrderIndependent ==
    Aggregated_ => \A other \in Reordered : other = call.ret

\* C16: every order of insertion gives the same classes, the same fields, equal
\* maxima and equal merged scalars, and averages that differ by no more than the
\* rounding of the float additions allows: by 4 * Roundoff * the sum of |values|.
C16_OrderIndependentUpToRounding ==
    Aggregated_ =>
        \A other \in Reordered :
            /\ DOMAIN other = DOMAIN call.ret
            /\ \A c \in DOMAIN call.ret :
                   /\ DOMAIN other[c] = DOMAIN call.ret[c]
                   /\ \A f \in DOMAIN call.ret[c] \ {AvgField(name) : name \in Ratios} :
                          other[c][f] = call.ret[c][f]
                   /\ c \in OKeys(call.observations) =>
                          \A name \in Ratios :
                              RatLe(RatAbs(RatSub(other[c][AvgField(name)],
                                                  call.ret[c][AvgField(name)])),
                                    RatMul(RatMul(Num(4), Roundoff),
                                           AbsSum(ValuesOf(call.observations, c, name))))

\* C16's case: three leaves of one class whose drop ratios add up to another
\* float in another order, so that the average differs.
C16_Witness ==
    /\ Aggregated_
    /\ Len(ValuesOf(call.observations, Cls("gold"), "drop_ratio")) = 3
    /\ \E other \in Reordered :
           other[Cls("gold")]["avg_drop_ratio"] # call.ret[Cls("gold")]["avg_drop_ratio"]

-----------------------------------------------------------------------------
(* Claims about the stored tree, checked under SpecStore.                  *)

\* the leaf a label of the response belongs to
LeafOfLabel(label) ==
    LET k == parse_key(label) IN <<k[1].val, k[2].val, k[3].val>>
Complete(label) ==
    LET k == parse_key(label) IN k[1].some /\ k[2].some /\ k[3].some
\* the values the response holds for leaf k under metric entry i
ValuesFor(i, k) ==
    {raw[i].items[j][2] : j \in {n \in 1..Len(raw[i].items) :
                                    /\ Complete(raw[i].items[n][1])
                                    /\ LeafOfLabel(raw[i].items[n][1]) = k}}

\* the stored tree holds the leaves of the last response and nothing else: a leaf
\* per complete label, and in it a raw metric exactly where the response has one
StoredIsFetched ==
    /\ metrics.some
    /\ LeafKeys = UNION {{LeafOfLabel(raw[i].items[j][1]) :
                             j \in {n \in 1..Len(raw[i].items) : Complete(raw[i].items[n][1])}} :
                         i \in 1..Len(raw)}
    /\ \A k \in LeafKeys :
           /\ DOMAIN Leaf(k) = Derived \cup {raw[i].metric : i \in {n \in 1..Len(raw) : ValuesFor(n, k) # {}}}
           /\ \A i \in 1..Len(raw) : ValuesFor(i, k) # {} => Leaf(k)[raw[i].metric] \in ValuesFor(i, k)

\* the weights returned have an entry per class, pod and source of the stored tree
KeyedLikeStored ==
    /\ DOMAIN call.ret = DOMAIN metrics.val
    /\ \A c \in DOMAIN metrics.val :
           /\ DOMAIN call.ret[c] = DOMAIN metrics.val[c]
           /\ \A p \in DOMAIN metrics.val[c] :
                  DOMAIN call.ret[c][p] = DOMAIN metrics.val[c][p]
    /\ call.scored = Cardinality(LeafKeys)

\* C17: after a get_observations call that returns, the stored tree is the tree of
\* that call's fetch, with no leaf and no value of the tree stored before; a
\* compute_source_weights_per_class call that returns gives an entry per class, pod
\* and source of the tree stored then.
C17_TreeReplaced ==
    /\ Returned => StoredIsFetched
    /\ (Computed /\ call.exc = "none") => KeyedLikeStored

\* C17's case: a call that returned while a tree with another leaf was stored.
C17_Witness ==
    /\ Returned
    /\ call.metrics_in.some
    /\ LeafKeys # {}
    /\ \E c \in DOMAIN call.metrics_in.val : c \notin DOMAIN metrics.val
    /\ \E k \in LeafKeys : "forwarded_batches" \notin DOMAIN Leaf(k)

-----------------------------------------------------------------------------
(* A claim about the starvation flag, checked under SpecObs.               *)

\* a raw count of a leaf, 0 when the response held none
RawCount(k, name) == IF name \in DOMAIN Leaf(k) THEN Leaf(k)[name] ELSE Zero

\* C18: starvation_flag is 1 if queue_length > 0 and forwarded_batches < 1 and 0
\* otherwise, and a raw count the leaf does not hold is taken as 0 in this and in
\* every other formula: the drop ratio, the staleness ratio and the queue ratio.
C18_StarvationFlag ==
    Returned =>
        \A k \in LeafKeys :
            LET queue_length == RawCount(k, "queue_length")
                forwarded_batches == RawCount(k, "forwarded_batches")
                dropped_batches == RawCount(k, "dropped_batches")
                fresh_good_batches == RawCount(k, "fresh_good_batches")
                total_batches == RatAdd(forwarded_batches, dropped_batches)
            IN  /\ Leaf(k)["starvation_flag"] \in {Zero, One}
                /\ Leaf(k)["starvation_flag"] = One
                       <=> (RatLt(Zero, queue_length) /\ RatLt(forwarded_batches, One))
                /\ RatMul(Leaf(k)["drop_ratio"], total_batches) = dropped_batches
                       \/ (IsZero(total_batches) /\ Leaf(k)["drop_ratio"] = Zero)
                /\ IF IsZero(forwarded_batches) THEN Leaf(k)["staleness_ratio"] = One
                   ELSE RatMul(RatSub(One, Leaf(k)["staleness_ratio"]), forwarded_batches)
                            = fresh_good_batches
                /\ RatMul(Leaf(k)["queue_ratio"], Num(class_queue_capacity))
                       = RatMul(queue_length, Num(call.sc_in[k[1]].v))

\* C18's case: a starved leaf without a forwarded count, next to a leaf without a
\* queue length that is not starved.
C18_Witness ==
    /\ Returned
    /\ \E k \in LeafKeys : /\ "forwarded_batches" \notin DOMAIN Leaf(k)
                           /\ RatLt(Zero, RawCount(k, "queue_length"))
                           /\ Leaf(k)["starvation_flag"] = One
    /\ \E k \in LeafKeys : /\ "queue_length" \notin DOMAIN Leaf(k)
                           /\ "fresh_good_batches" \notin DOMAIN Leaf(k)
                           /\ Leaf(k)["starvation_flag"] = Zero
                           /\ Leaf(k)["queue_ratio"] = Zero

-----------------------------------------------------------------------------
(* A claim about the source counts, checked under SpecCount.               *)

PositiveInt(v) == v.t = "int" /\ v.v > 0

\* C19 (as claimed): after a fetch_class_info or push_weights_to_pods call every
\* stored source count is a positive integer, and a get_observations call whose
\* classes all have a stored count does not fail in the division by it.
C19_CountsPositive ==
    /\ call.op \in {"fetch_class_info", "push_weights_to_pods"} =>
           \A c \in DOMAIN source_count_per_class :
               PositiveInt(source_count_per_class[c])
    /\ (Observed /\ ClassesOf(raw) \subseteq DOMAIN call.sc_in) =>
           call.exc \notin {"ZeroDivisionError", "TypeError"}

-----------------------------------------------------------------------------
(* A claim about the frame of apply_rate_limits, checked under SpecRate.   *)

\* C20 (as claimed): a call of apply_rate_limits that raises has issued no patch
\* and leaves current_class_weights as it was; current_class_weights changes only
\* in a call that reaches the loop over the classes.
C20_RaisingLeavesNoEffect ==
    /\ (Applied /\ call.exc # "none") =>
           /\ call.patches = <<>>
           /\ current_class_weights = call.ccw_in
    /\ (Applied /\ current_class_weights # call.ccw_in) => LoopRan

-----------------------------------------------------------------------------
(* A claim about the sum of the tokens, checked under SpecRate.            *)

RECURSIVE TokenSum(_)
TokenSum(patches) ==
    IF Len(patches) = 0 THEN 0 ELSE Head(patches).maxTokens + TokenSum(Tail(patches))

\* C21 (as claimed): in a call that returns, with weights that are not negative
\* and sum to 1.0, the tokens of the classes sum to no more than
\* total_ingestion_rate.
C21_TokensWithinRate ==
    (/\ Applied
     /\ call.exc = "none"
     /\ \A i \in 1..Len(call.request.items) : RatLe(Zero, call.request.items[i][2])
     /\ WeightSum(call.request.items, 1) = One)
        => TokenSum(call.patches) <= total_ingestion_rate

-----------------------------------------------------------------------------
(* A claim about the labels of one class, checked under SpecAgg.           *)

\* the response with the labels of its i-th metric in the order f
Relabelled(i, f) ==
    [n \in 1..Len(raw) |->
        IF n = i THEN [raw[n] EXCEPT !.items = [j \in 1..Len(raw[n].items) |-> raw[n].items[f[j]]]]
        ELSE raw[n]]

\* C22 (as claimed): the summary is the same for every order of the label strings
\* of a metric of the response, also when several of them name the same class.
C22_LabelOrderIndependent ==
    Aggregated_ =>
        \A i \in {n \in 1..Len(raw) : raw[n].isdict} :
            \A f \in Orders(Len(raw[i].items)) :
                Aggregated(call.observations, Relabelled(i, f)) = call.ret

=============================================================================
